---- MODULE Spec2Model ----
(***************************************************************************)
(* The consumer Runner of kafkajs (src/src/consumer/runner.js) as a state  *)
(* machine.  Every await of the source is a suspension point: the code     *)
(* between two awaits is one atomic action (JavaScript runs it to          *)
(* completion), and the pending call is a value of a pc field.             *)
(*                                                                         *)
(* The collaborators whose code is not in src/ (the retrier of ../retry,   *)
(* limitConcurrency of ../utils/concurrency, and the ConsumerGroup) are    *)
(* modelled from spec.md sections 4.2, 4.5 and 6.                          *)
(***************************************************************************)
EXTENDS Integers, FiniteSets, Sequences, TLC

\* ------------------------------------------------------------- bounds
NumPartitions == 2   \* partitions of the one subscribed topic
LogEnd == 2          \* partition 0 holds the offsets 0 .. LogEnd-1
MaxChains == 1       \* scheduleFetch retrier chains alive at once
MaxOrphans == 1      \* abandoned fetch cycles with tasks still alive
MaxStarts == 2       \* start() calls that find the Runner stopped
MaxStops == 1        \* stop() calls that find the Runner running
MaxErrors == 2       \* rejections injected by the group and the handlers
MaxSeeks == 1        \* external seek requests
Retries == 1         \* retry.retries of the retry configuration
MaxLimit == 2        \* largest partitionsConsumedConcurrently tried

Partitions == 0 .. (NumPartitions - 1)
\* the log end offset of partition p: the other partitions are one message
\* shorter than partition 0
logEnd(p) == IF p = 0 THEN LogEnd ELSE LogEnd - 1
ChainIds == 1 .. MaxChains
\* the cycle a chain c awaits is cycle c; an abandoned cycle whose tasks go on
\* gets an identity above MaxChains
CycleIds == 1 .. (MaxChains + MaxOrphans)
OrphanIds == (MaxChains + 1) .. (MaxChains + MaxOrphans)
\* a task is known by its cycle and the partition of its batch
TaskIds == CycleIds \X Partitions
\* owner 0 is the join of start(), owner c > 0 the re-join of chain c
JoinOwners == 0 .. MaxChains

\* ------------------------------------------------------------- errors
ErrKinds ==
  { "REBALANCE_IN_PROGRESS", "NOT_COORDINATOR_FOR_GROUP", "UNKNOWN_MEMBER_ID",
    "KafkaJSOffsetOutOfRange", "KafkaJSNotImplemented", "Error" }

isRebalancing(e) ==
  e = "REBALANCE_IN_PROGRESS" \/ e = "NOT_COORDINATOR_FOR_GROUP"

VARIABLES
  running,                        \* this.running
  consuming,                      \* this.consuming
  eachMessage,                    \* TRUE: eachMessage configured, FALSE: eachBatch
  eachBatchAutoResolve,           \* this.eachBatchAutoResolve
  autoCommit,                     \* this.autoCommit
  partitionsConsumedConcurrently, \* this.partitionsConsumedConcurrently
  isTestMode,                     \* process.env.NODE_ENV === 'test'
  chains,                         \* the retrier chains of scheduleFetch
  joins,                          \* the join() calls in progress
  tasks,                          \* the batch tasks given to the limiter
  delivered,                      \* offset of the last eachMessage call, per partition
  handled,                        \* last offset of the batch the awaited cycle has
                                  \* handled to its end, per partition, else -1
  stopPc,                         \* where the stop() call in progress is
  waited,                         \* the last stop() found consuming true
  memberId,                       \* consumerGroup.memberId
  resolved,                       \* group cursor: next offset to consume
  committed,                      \* group cursor: committed offset
  seekOffset,                     \* group: pending seek, -1 when none
  crashes,                        \* number of onCrash invocations
  lastCrash,                      \* the error of the last onCrash invocation
  errs,                           \* rejections injected so far
  seeks,                          \* seeks requested so far
  starts,                         \* start() calls that went on to join
  stops                           \* stop() calls that went on to leave

config ==
  << eachMessage, eachBatchAutoResolve, autoCommit,
     partitionsConsumedConcurrently, isTestMode >>
loopVars == << running, consuming, chains, joins, memberId, crashes, lastCrash >>
groupVars == << resolved, committed, seekOffset >>
taskVars == << tasks, delivered, handled >>
stopVars == << stopPc, waited >>
counters == << errs, seeks, starts, stops >>
vars == << config, loopVars, groupVars, taskVars, stopVars, counters >>

NoChain == [pc |-> "none", retryCount |-> 0]
NoJoin == [pc |-> "none", retryCount |-> 0]
NoTask == [first |-> 0, last |-> 0, next |-> 0, st |-> "none"]

ChainPcs ==
  { "none", "fetch", "tasks", "autoCommit", "heartbeat", "immediate",
    "join", "backoff" }
TaskSts ==
  { "none", "queued", "eachMessage", "heartbeat", "commitOffsetsIfNecessary",
    "eachBatch", "commitOffsets" }

TypeOK ==
  /\ running \in BOOLEAN /\ consuming \in BOOLEAN
  /\ eachMessage \in BOOLEAN /\ eachBatchAutoResolve \in BOOLEAN
  /\ autoCommit \in BOOLEAN /\ isTestMode \in BOOLEAN
  /\ partitionsConsumedConcurrently \in 1 .. MaxLimit
  /\ \A c \in ChainIds :
       /\ chains[c].pc \in ChainPcs
       /\ chains[c].retryCount \in 0 .. Retries
  /\ \A o \in JoinOwners :
       /\ joins[o].pc \in {"none", "join", "sync", "backoff"}
       /\ joins[o].retryCount \in 0 .. Retries
  /\ \A t \in TaskIds :
       /\ tasks[t].st \in TaskSts
       /\ tasks[t].next \in 0 .. LogEnd
  /\ stopPc \in {"idle", "waiting", "leave"}
  /\ waited \in BOOLEAN
  /\ \A p \in Partitions : delivered[p] \in -1 .. (LogEnd - 1)
  /\ \A p \in Partitions : handled[p] \in -1 .. (LogEnd - 1)
  /\ memberId \in {"null", "member"}
  /\ \A p \in Partitions :
       /\ resolved[p] \in 0 .. LogEnd
       /\ committed[p] \in 0 .. LogEnd
       /\ seekOffset[p] \in -1 .. LogEnd
  /\ crashes \in 0 .. MaxErrors
  /\ lastCrash \in ErrKinds \cup {"none"}
  /\ errs \in 0 .. MaxErrors
  /\ seeks \in 0 .. MaxSeeks
  /\ starts \in 0 .. MaxStarts
  /\ stops \in 0 .. MaxStops

\* The constructor arguments tried, as << eachMessage, eachBatchAutoResolve,
\* autoCommit, partitionsConsumedConcurrently, isTestMode >>: each option
\* takes each of its values in some configuration.
Configurations ==
  { << TRUE, TRUE, TRUE, 1, FALSE >>,
    << TRUE, TRUE, FALSE, 1, TRUE >>,
    << FALSE, TRUE, TRUE, MaxLimit, FALSE >>,
    << FALSE, FALSE, FALSE, 1, TRUE >> }

\* The state after the constructor (runner.js 16-43).
Init ==
  /\ running = FALSE
  /\ consuming = FALSE
  /\ \E cf \in Configurations :
       /\ eachMessage = cf[1]
       /\ eachBatchAutoResolve = cf[2]
       /\ autoCommit = cf[3]
       /\ partitionsConsumedConcurrently = cf[4]
       /\ isTestMode = cf[5]
  /\ chains = [c \in ChainIds |-> NoChain]
  /\ joins = [o \in JoinOwners |-> NoJoin]
  /\ tasks = [t \in TaskIds |-> NoTask]
  /\ stopPc = "idle"
  /\ waited = FALSE
  /\ delivered = [p \in Partitions |-> -1]
  /\ handled = [p \in Partitions |-> -1]
  /\ memberId = "null"
  /\ resolved = [p \in Partitions |-> 0]
  /\ committed = [p \in Partitions |-> 0]
  /\ seekOffset = [p \in Partitions |-> -1]
  /\ crashes = 0
  /\ lastCrash = "none"
  /\ errs = 0
  /\ seeks = 0
  /\ starts = 0
  /\ stops = 0


\* ------------------------------------------------- the Runner's own state
\* The fields a synchronous run of Runner code reads and writes, as one value:
\* the calls made between two awaits are composed as functions on it.
Cur ==
  [running |-> running, consuming |-> consuming, chains |-> chains,
   joins |-> joins, memberId |-> memberId, crashes |-> crashes,
   lastCrash |-> lastCrash]

Becomes(s) ==
  /\ running' = s.running
  /\ consuming' = s.consuming
  /\ chains' = s.chains
  /\ joins' = s.joins
  /\ memberId' = s.memberId
  /\ crashes' = s.crashes
  /\ lastCrash' = s.lastCrash

Min(S) == CHOOSE x \in S : \A y \in S : x <= y

FreeChains(s) == {c \in ChainIds : s.chains[c].pc = "none"}

\* The promise of a retrier chain settles: nothing of the chain is left.
endChain(s, c) == [s EXCEPT !.chains[c] = NoChain]

\* this.onCrash(e): the callback given to the constructor is invoked.
onCrash(s, e) == [s EXCEPT !.crashes = @ + 1, !.lastCrash = e]

\* The retried function of scheduleFetch up to its first await: consuming is
\* set and fetch() has called consumerGroup.fetch().
iteration(s, c) == [s EXCEPT !.consuming = TRUE, !.chains[c].pc = "fetch"]

\* scheduleFetch() up to its first await.
scheduleFetch(s) ==
  IF ~s.running THEN s ELSE iteration(s, Min(FreeChains(s)))

\* The retrier when the retried function rejects with e: another attempt
\* after a backoff while retries are left, rejection of the chain otherwise;
\* the rejection of a scheduleFetch chain goes to .catch(this.onCrash).
retrierRejected(s, c, e) ==
  IF s.chains[c].retryCount < Retries
    THEN [s EXCEPT !.chains[c] =
            [pc |-> "backoff", retryCount |-> @.retryCount + 1]]
    ELSE onCrash(endChain(s, c), e)

\* bail(e) of the retrier: the chain rejects at once, no retry.
bail(s, c, e) == onCrash(endChain(s, c), e)

\* The finally block of the retried function of scheduleFetch.
finally(s) == [s EXCEPT !.consuming = FALSE]

\* join() up to its first await: consumerGroup.join() is called.
join(s, o) == [s EXCEPT !.joins[o] = [pc |-> "join", retryCount |-> 0]]

\* A catch block that answers UNKNOWN_MEMBER_ID like a rebalance, keeping
\* the member id.
scheduleFetchCatchKeepsMember(s, c, e) ==
  IF ~s.running THEN finally(endChain(s, c))
  ELSE IF isRebalancing(e) \/ e = "UNKNOWN_MEMBER_ID"
    THEN join([s EXCEPT !.chains[c].pc = "join"], c)
  ELSE IF e = "KafkaJSOffsetOutOfRange"
    THEN finally(scheduleFetch(endChain(s, c)))
  ELSE IF e = "KafkaJSNotImplemented"
    THEN finally(bail(s, c, e))
  ELSE finally(retrierRejected(s, c, e))

\* The catch block of the retried function of scheduleFetch, for error e
\* raised by the fetch cycle of chain c, followed by the finally block.
scheduleFetchCatch(s, c, e) ==
  IF ~s.running THEN finally(endChain(s, c))
  ELSE IF isRebalancing(e)
    THEN join([s EXCEPT !.chains[c].pc = "join"], c)
  ELSE IF e = "UNKNOWN_MEMBER_ID"
    THEN join([s EXCEPT !.chains[c].pc = "join", !.memberId = "null"], c)
  ELSE IF e = "KafkaJSOffsetOutOfRange"
    THEN finally(scheduleFetch(endChain(s, c)))
  ELSE IF e = "KafkaJSNotImplemented"
    THEN finally(bail(s, c, e))
  ELSE finally(retrierRejected(s, c, e))

\* After `await this.join()` in a catch branch of chain c: scheduleFetch(),
\* return, and the finally block.
rejoined(s, c) == finally(scheduleFetch(endChain(s, c)))

\* A rejected join() that reaches onCrash wherever join() was called from,
\* on top of what its caller does with the error.
joinRejectedAlwaysCrashes(s, o, e) ==
  LET a == [s EXCEPT !.joins[o] = NoJoin] IN
  onCrash(IF o = 0 THEN a ELSE finally(retrierRejected(a, o, e)), e)

\* join() rejected with e: in start() the catch calls onCrash; in a catch
\* branch of scheduleFetch the error leaves the retried function.
joinRejected(s, o, e) ==
  LET a == [s EXCEPT !.joins[o] = NoJoin] IN
  IF o = 0 THEN onCrash(a, e) ELSE finally(retrierRejected(a, o, e))

\* The catch block of the retried function of join() for error e.
joinCatch(s, o, e) ==
  IF isRebalancing(e)
    THEN IF s.joins[o].retryCount < Retries
           THEN [s EXCEPT !.joins[o] =
                   [pc |-> "backoff", retryCount |-> @.retryCount + 1]]
           ELSE joinRejected(s, o, "Error")
    ELSE joinRejected(s, o, e)

\* The retried function of join() after `await this.consumerGroup.sync()`,
\* and what the caller does when join() has resolved.
joined(s, o) ==
  LET a == [s EXCEPT !.running = TRUE, !.joins[o] = NoJoin] IN
  IF o = 0 THEN scheduleFetch(a) ELSE rejoined(a, o)

\* ------------------------------------------------------------ lifecycle
\* start(): one call at a time.
Start ==
  /\ joins[0].pc = "none"
  /\ IF running
       THEN UNCHANGED << loopVars, starts >>
       ELSE /\ starts < MaxStarts
            /\ starts' = starts + 1
            /\ Becomes(join(Cur, 0))
  /\ UNCHANGED << config, groupVars, taskVars, stopVars, errs, seeks, stops >>

\* consumerGroup.join() resolves: the coordinator has given a member id.
JoinOk(o) ==
  /\ joins[o].pc = "join"
  /\ joins' = [joins EXCEPT ![o].pc = "sync"]
  /\ memberId' = "member"
  /\ UNCHANGED << running, consuming, chains, crashes, lastCrash >>
  /\ UNCHANGED << config, groupVars, taskVars, stopVars, counters >>

\* consumerGroup.sync() resolves.
SyncOk(o) ==
  /\ joins[o].pc = "sync"
  /\ o = 0 => FreeChains(Cur) # {}
  /\ Becomes(joined(Cur, o))
  /\ UNCHANGED << config, groupVars, taskVars, stopVars, counters >>

\* consumerGroup.join() or consumerGroup.sync() rejects with e.
JoinFail(o, e) ==
  /\ joins[o].pc \in {"join", "sync"}
  /\ errs < MaxErrors
  /\ errs' = errs + 1
  /\ Becomes(joinCatch(Cur, o, e))
  /\ UNCHANGED << config, groupVars, taskVars, stopVars, seeks, starts, stops >>

\* The backoff of join()'s retrier ends: the retried function runs again.
JoinRetry(o) ==
  /\ joins[o].pc = "backoff"
  /\ joins' = [joins EXCEPT ![o].pc = "join"]
  /\ UNCHANGED << running, consuming, chains, memberId, crashes, lastCrash >>
  /\ UNCHANGED << config, groupVars, taskVars, stopVars, counters >>

\* ------------------------------------------------------ the fetch cycle
hasSeekOffset(seek, p) == seek[p] # -1

\* The partitions of the tasks of cycle cy that have not settled.
CycleTasks(tk, cy) == {p \in Partitions : tk[<<cy, p>>].st # "none"}

FreeOrphans(tk) == {o \in OrphanIds : CycleTasks(tk, o) = {}}

\* A for loop that stays on the same message.
nextMessageAgain(r) == r

\* The for loop of processEachMessage goes to the next message of the batch.
nextMessage(r) == [r EXCEPT !.next = @ + 1]

\* The head of the for loop of processEachMessage for the task r on
\* partition p, whose next message is r.next: the loop ends, breaks, or
\* calls the handler.
processEachMessage(r, p, run, seek) ==
  IF r.next > r.last \/ ~run \/ hasSeekOffset(seek, p)
    THEN NoTask
    ELSE [r EXCEPT !.st = "eachMessage"]

\* The task fetch() gives to the limiter, up to its first await.
batchTask(r, p, run, seek) ==
  IF ~run THEN NoTask
  ELSE IF r.first > r.last THEN NoTask
  ELSE IF eachMessage THEN processEachMessage(r, p, run, seek)
  ELSE [r EXCEPT !.st = "eachBatch"]

\* limitConcurrency: the queued tasks of cycle cy start in FIFO order while
\* fewer than `limit` tasks of the cycle are in progress.
RECURSIVE concurrently(_, _, _, _)
concurrently(tk, cy, run, seek) ==
  LET queued == {p \in CycleTasks(tk, cy) : tk[<<cy, p>>].st = "queued"}
      active == CycleTasks(tk, cy) \ queued
  IN IF queued = {} \/ Cardinality(active) >= partitionsConsumedConcurrently
       THEN tk
       ELSE LET p == Min(queued)
            IN concurrently(
                 [tk EXCEPT ![<<cy, p>>] = batchTask(tk[<<cy, p>>], p, run, seek)],
                 cy, run, seek)

\* batches.map(batch => concurrently(...)): one task per batch.
submit(tk, cy, P, firstf, lastf) ==
  [t \in TaskIds |->
     IF t[1] = cy /\ t[2] \in P
       THEN [first |-> firstf[t[2]], last |-> lastf[t[2]],
             next |-> firstf[t[2]], st |-> "queued"]
       ELSE tk[t]]

\* Promise.all has rejected: the tasks of cycle cy that have not settled go
\* on with nothing awaiting them, under the identity o.
abandon(tk, cy, o) ==
  [t \in TaskIds |->
     IF t[1] = o THEN tk[<<cy, t[2]>>]
     ELSE IF t[1] = cy THEN NoTask
     ELSE tk[t]]

\* The eachMessage calls in progress on offset o of partition p.
Calls(tk, p, o) ==
  {cy \in CycleIds : tk[<<cy, p>>].st = "eachMessage" /\ tk[<<cy, p>>].next = o}

\* The offsets of partition p on which this step calls eachMessage.
Called(p) ==
  {o \in 0 .. (LogEnd - 1) :
     Cardinality(Calls(tasks', p, o)) > Cardinality(Calls(tasks, p, o))}

\* The record of the eachMessage calls the step makes.
Deliver ==
  delivered' = [p \in Partitions |->
                  IF Called(p) # {} THEN Min(Called(p)) ELSE delivered[p]]

\* A fetch() that goes from Promise.all to the trailing heartbeat without
\* autoCommitOffsets().
afterAllNoCommit(s, c) ==
  [s EXCEPT !.chains[c].pc = "heartbeat"]

\* fetch() after Promise.all has resolved: autoCommitOffsets(), which calls
\* commitOffsets() if autoCommit is on, else the trailing heartbeat call.
afterAll(s, c) ==
  [s EXCEPT !.chains[c].pc = IF autoCommit THEN "autoCommit" ELSE "heartbeat"]

\* No batch of an awaited cycle is on record: a cycle begins or has ended.
NoneHandled == [p \in Partitions |-> -1]

\* The task t of an awaited cycle resolves with the handler having returned
\* for the whole batch: eachBatch has returned, or the loop of
\* processEachMessage has gone through the last message.
completes(t) ==
  /\ t[1] \in ChainIds
  /\ tasks[t].st = "eachBatch" \/ tasks[t].next >= tasks[t].last

\* The task t resolves: its slot goes to the next queued task, and
\* Promise.all resolves if t was the last task of an awaited cycle.
taskResolved(t) ==
  LET cy == t[1]
      tk == concurrently([tasks EXCEPT ![t] = NoTask], cy, running, seekOffset)
  IN /\ tasks' = tk
     /\ Deliver
     /\ handled' = IF completes(t)
                     THEN [handled EXCEPT ![t[2]] = tasks[t].last]
                     ELSE handled
     /\ Becomes(IF cy \in ChainIds /\ CycleTasks(tk, cy) = {}
                  THEN afterAll(Cur, cy) ELSE Cur)

\* The task t rejects with e: its slot goes to the next queued task, and
\* Promise.all rejects at once if the cycle is still awaited.
taskRejected(t, e) ==
  LET cy == t[1]
      tk == concurrently([tasks EXCEPT ![t] = NoTask], cy, running, seekOffset)
  IN IF cy \in ChainIds
       THEN /\ CycleTasks(tk, cy) # {} => FreeOrphans(tk) # {}
            /\ tasks' = IF CycleTasks(tk, cy) = {} THEN tk
                        ELSE abandon(tk, cy, Min(FreeOrphans(tk)))
            /\ Deliver
            /\ handled' = NoneHandled
            /\ Becomes(scheduleFetchCatch(Cur, cy, e))
       ELSE /\ tasks' = tk
            /\ Deliver
            /\ UNCHANGED << handled, loopVars >>

\* The position consumerGroup.fetch() reads partition p from.
fetchPosition(p) ==
  IF hasSeekOffset(seekOffset, p) THEN seekOffset[p] ELSE resolved[p]

\* consumerGroup.fetch() resolves with one batch for each partition of P,
\* from the partition's position to lastf[p] (empty if that is below it).
FetchOk(c) ==
  /\ chains[c].pc = "fetch"
  /\ \E P \in SUBSET Partitions : \E lastf \in [P -> -1 .. (LogEnd - 1)] :
       LET pos == [p \in Partitions |-> fetchPosition(p)]
           noSeek == [p \in Partitions |-> -1]
           tk == concurrently(submit(tasks, c, P, pos, lastf), c, running, noSeek)
       IN /\ \A p \in P : lastf[p] >= pos[p] - 1 /\ lastf[p] < logEnd(p)
          /\ tasks' = tk
          /\ Deliver
          /\ handled' = NoneHandled
          /\ resolved' = pos
          /\ seekOffset' = noSeek
          /\ Becomes(IF CycleTasks(tk, c) = {}
                       THEN afterAll(Cur, c)
                       ELSE [Cur EXCEPT !.chains[c].pc = "tasks"])
  /\ UNCHANGED << config, committed, stopVars, counters >>

\* consumerGroup.fetch() rejects with e.
FetchFail(c, e) ==
  /\ chains[c].pc = "fetch"
  /\ errs < MaxErrors
  /\ errs' = errs + 1
  /\ Becomes(scheduleFetchCatch(Cur, c, e))
  /\ UNCHANGED << config, groupVars, taskVars, stopVars, seeks, starts, stops >>

\* The commitOffsets() of autoCommitOffsets() resolves: heartbeat is called.
AutoCommitOk(c) ==
  /\ chains[c].pc = "autoCommit"
  /\ committed' = resolved
  /\ chains' = [chains EXCEPT ![c].pc = "heartbeat"]
  /\ UNCHANGED << running, consuming, joins, memberId, crashes, lastCrash >>
  /\ UNCHANGED << config, resolved, seekOffset, taskVars, stopVars, counters >>

\* The commitOffsets() of autoCommitOffsets() or the trailing heartbeat
\* rejects with e.
TrailingFail(c, e) ==
  /\ chains[c].pc \in {"autoCommit", "heartbeat"}
  /\ errs < MaxErrors
  /\ errs' = errs + 1
  /\ Becomes(scheduleFetchCatch(Cur, c, e))
  /\ handled' = NoneHandled
  /\ UNCHANGED << config, groupVars, tasks, delivered, stopVars, seeks, starts, stops >>

\* The trailing heartbeat resolves: fetch() returns, consuming is reset,
\* setImmediate is called and the chain resolves.
TrailingHeartbeatOk(c) ==
  /\ chains[c].pc = "heartbeat"
  /\ Becomes(finally([Cur EXCEPT !.consuming = FALSE,
                                 !.chains[c] = [NoChain EXCEPT !.pc = "immediate"]]))
  /\ handled' = NoneHandled
  /\ UNCHANGED << config, groupVars, tasks, delivered, stopVars, counters >>

\* The setImmediate callback: scheduleFetch().
Immediate(c) ==
  /\ chains[c].pc = "immediate"
  /\ Becomes(scheduleFetch(endChain(Cur, c)))
  /\ UNCHANGED << config, groupVars, taskVars, stopVars, counters >>

\* The backoff of the retrier ends: the retried function runs again.
Retry(c) ==
  /\ chains[c].pc = "backoff"
  /\ Becomes(iteration(Cur, c))
  /\ UNCHANGED << config, groupVars, taskVars, stopVars, counters >>

\* ----------------------------------------------------- processEachMessage
\* The eachMessage handler returns for the message Runner gave it:
\* resolveOffset(message.offset), then heartbeat is called.
EachMessageOk(t) ==
  /\ tasks[t].st = "eachMessage"
  /\ resolved' = [resolved EXCEPT ![t[2]] = tasks[t].next + 1]
  /\ tasks' = [tasks EXCEPT ![t].st = "heartbeat"]
  /\ UNCHANGED << delivered, handled >>
  /\ UNCHANGED << config, loopVars, committed, seekOffset, stopVars, counters >>

\* The eachMessage handler throws: commitOffsets() is called.  Nothing reads
\* the error before it is thrown again, so its kind is drawn there.
EachMessageThrow(t) ==
  /\ tasks[t].st = "eachMessage"
  /\ errs < MaxErrors
  /\ errs' = errs + 1
  /\ tasks' = [tasks EXCEPT ![t].st = "commitOffsets"]
  /\ UNCHANGED << delivered, handled >>
  /\ UNCHANGED << config, loopVars, groupVars, stopVars, seeks, starts, stops >>

\* The commitOffsets() of a catch block resolves: the handler's error e is
\* thrown again.
CommitOffsetsOk(t, e) ==
  /\ tasks[t].st = "commitOffsets"
  /\ committed' = resolved
  /\ taskRejected(t, e)
  /\ UNCHANGED << config, resolved, seekOffset, stopVars, counters >>

\* A call the task t awaits (heartbeat, commitOffsetsIfNecessary or the
\* commitOffsets of a catch block) rejects with e.
TaskCallFail(t, e) ==
  /\ tasks[t].st \in {"heartbeat", "commitOffsetsIfNecessary", "commitOffsets"}
  /\ errs < MaxErrors
  /\ errs' = errs + 1
  /\ taskRejected(t, e)
  /\ UNCHANGED << config, groupVars, stopVars, seeks, starts, stops >>

\* consumerGroup.heartbeat resolves: commitOffsetsIfNecessary() is called.
HeartbeatOk(t) ==
  /\ tasks[t].st = "heartbeat"
  /\ tasks' = [tasks EXCEPT ![t].st = "commitOffsetsIfNecessary"]
  /\ UNCHANGED << delivered, handled >>
  /\ UNCHANGED << config, loopVars, groupVars, stopVars, counters >>

\* consumerGroup.commitOffsetsIfNecessary() resolves, having committed or
\* not (its thresholds); the loop goes on to the next message.
CommitOffsetsIfNecessaryOk(t) ==
  /\ tasks[t].st = "commitOffsetsIfNecessary"
  /\ \E commit \in BOOLEAN :
       committed' = IF commit THEN resolved ELSE committed
  /\ LET r == processEachMessage(nextMessage(tasks[t]), t[2],
                                 running, seekOffset)
     IN IF r = NoTask
          THEN taskResolved(t)
          ELSE /\ tasks' = [tasks EXCEPT ![t] = r]
               /\ Deliver
               /\ UNCHANGED << handled, loopVars >>
  /\ UNCHANGED << config, resolved, seekOffset, stopVars, counters >>

\* ------------------------------------------------------- processEachBatch
\* The eachBatch handler, going through the batch in order while
\* isRunning(), calls resolveOffset for its next message.
EachBatchResolve(t) ==
  /\ tasks[t].st = "eachBatch"
  /\ running
  /\ tasks[t].next <= tasks[t].last
  /\ resolved' = [resolved EXCEPT ![t[2]] = tasks[t].next + 1]
  /\ tasks' = [tasks EXCEPT ![t].next = @ + 1]
  /\ UNCHANGED << delivered, handled >>
  /\ UNCHANGED << config, loopVars, committed, seekOffset, stopVars, counters >>

\* An eachBatch return that resolves the last offset whatever
\* eachBatchAutoResolve says.
EachBatchOkAlwaysResolves(t) ==
  /\ tasks[t].st = "eachBatch"
  /\ resolved' = [resolved EXCEPT ![t[2]] = tasks[t].last + 1]
  /\ taskResolved(t)
  /\ UNCHANGED << config, committed, seekOffset, stopVars, counters >>

\* The eachBatch handler returns: the last offset is resolved if
\* eachBatchAutoResolve.
EachBatchOk(t) ==
  /\ tasks[t].st = "eachBatch"
  /\ resolved' = IF eachBatchAutoResolve
                   THEN [resolved EXCEPT ![t[2]] = tasks[t].last + 1]
                   ELSE resolved
  /\ taskResolved(t)
  /\ UNCHANGED << config, committed, seekOffset, stopVars, counters >>

\* The eachBatch handler throws e: autoCommitOffsets(), then throw e.
EachBatchThrow(t, e) ==
  /\ tasks[t].st = "eachBatch"
  /\ errs < MaxErrors
  /\ errs' = errs + 1
  /\ IF autoCommit
       THEN /\ tasks' = [tasks EXCEPT ![t].st = "commitOffsets"]
            /\ UNCHANGED << loopVars, delivered, handled >>
       ELSE taskRejected(t, e)
  /\ UNCHANGED << config, groupVars, stopVars, seeks, starts, stops >>

\* ------------------------------------------------------------------ stop
\* A waitForConsumer that resolves without looking at consuming.
waitForConsumerNoCheck(cons) == "leave"

\* waitForConsumer(), and each firing of its timer: leave() is called next
\* if consuming is false, else the timer is set again.
waitForConsumer(cons) == IF ~cons THEN "leave" ELSE "waiting"

\* stop() up to its first suspension.  In test mode leave() is called at
\* once; otherwise waitForConsumer() resolves at once if consuming is false
\* (leave() is then called with no other code of the Runner in between) and
\* else starts the one second poll.
Stop ==
  /\ stopPc = "idle"
  /\ IF ~running
       THEN UNCHANGED << running, stopVars, stops >>
       ELSE /\ stops < MaxStops
            /\ stops' = stops + 1
            /\ running' = FALSE
            /\ stopPc' = IF isTestMode THEN "leave" ELSE waitForConsumer(consuming)
            /\ waited' = consuming
  /\ UNCHANGED << consuming, chains, joins, memberId, crashes, lastCrash >>
  /\ UNCHANGED << config, groupVars, taskVars, errs, seeks, starts >>

\* The timer of waitForConsumer fires.
WaitForConsumer ==
  /\ stopPc = "waiting"
  /\ stopPc' = waitForConsumer(consuming)
  /\ UNCHANGED waited
  /\ UNCHANGED << config, loopVars, groupVars, taskVars, counters >>

\* consumerGroup.leave() settles; a rejection is swallowed.
LeaveDone ==
  /\ stopPc = "leave"
  /\ stopPc' = "idle"
  /\ UNCHANGED waited
  /\ UNCHANGED << config, loopVars, groupVars, taskVars, counters >>

\* ------------------------------------------------------------------ seek
\* The user seeks partition p to offset o (consumer.seek): the group holds
\* the seek until its next fetch.
Seek(p, o) ==
  /\ seeks < MaxSeeks
  /\ seeks' = seeks + 1
  /\ seekOffset' = [seekOffset EXCEPT ![p] = o]
  /\ UNCHANGED << config, loopVars, resolved, committed, taskVars, stopVars >>
  /\ UNCHANGED << errs, starts, stops >>

\* ------------------------------------------------------- specification
Next ==
  \/ Start
  \/ Stop
  \/ WaitForConsumer
  \/ LeaveDone
  \/ \E o \in JoinOwners : JoinOk(o)
  \/ \E o \in JoinOwners : SyncOk(o)
  \/ \E o \in JoinOwners, e \in ErrKinds : JoinFail(o, e)
  \/ \E o \in JoinOwners : JoinRetry(o)
  \/ \E c \in ChainIds : FetchOk(c)
  \/ \E c \in ChainIds, e \in ErrKinds : FetchFail(c, e)
  \/ \E c \in ChainIds : AutoCommitOk(c)
  \/ \E c \in ChainIds, e \in ErrKinds : TrailingFail(c, e)
  \/ \E c \in ChainIds : TrailingHeartbeatOk(c)
  \/ \E c \in ChainIds : Immediate(c)
  \/ \E c \in ChainIds : Retry(c)
  \/ \E t \in TaskIds : EachMessageOk(t)
  \/ \E t \in TaskIds : EachMessageThrow(t)
  \/ \E t \in TaskIds, e \in ErrKinds : CommitOffsetsOk(t, e)
  \/ \E t \in TaskIds, e \in ErrKinds : TaskCallFail(t, e)
  \/ \E t \in TaskIds : HeartbeatOk(t)
  \/ \E t \in TaskIds : CommitOffsetsIfNecessaryOk(t)
  \/ \E t \in TaskIds : EachBatchResolve(t)
  \/ \E t \in TaskIds : EachBatchOk(t)
  \/ \E t \in TaskIds, e \in ErrKinds : EachBatchThrow(t, e)

Spec == Init /\ [][Next]_vars

\* The Runner with a user who also seeks, and a group and handlers that do
\* not fail.
NextSeek ==
  \/ Start
  \/ Stop
  \/ WaitForConsumer
  \/ LeaveDone
  \/ \E o \in JoinOwners : JoinOk(o)
  \/ \E o \in JoinOwners : SyncOk(o)
  \/ \E c \in ChainIds : FetchOk(c)
  \/ \E c \in ChainIds : AutoCommitOk(c)
  \/ \E c \in ChainIds : TrailingHeartbeatOk(c)
  \/ \E c \in ChainIds : Immediate(c)
  \/ \E t \in TaskIds : EachMessageOk(t)
  \/ \E t \in TaskIds : HeartbeatOk(t)
  \/ \E t \in TaskIds : CommitOffsetsIfNecessaryOk(t)
  \/ \E t \in TaskIds : EachBatchResolve(t)
  \/ \E t \in TaskIds : EachBatchOk(t)
  \/ \E p \in Partitions, o \in 0 .. LogEnd : Seek(p, o)

SpecSeek == Init /\ [][NextSeek]_vars

\* The Runner started once and never started again, with a group whose
\* fetch can reject and whose other calls and handlers return normally.
StartOnce == starts = 0 /\ Start

NextLive ==
  \/ StartOnce
  \/ Stop
  \/ WaitForConsumer
  \/ LeaveDone
  \/ \E o \in JoinOwners : JoinOk(o)
  \/ \E o \in JoinOwners : SyncOk(o)
  \/ \E c \in ChainIds : FetchOk(c)
  \/ \E c \in ChainIds, e \in ErrKinds : FetchFail(c, e)
  \/ \E c \in ChainIds : AutoCommitOk(c)
  \/ \E c \in ChainIds : TrailingHeartbeatOk(c)
  \/ \E c \in ChainIds : Immediate(c)
  \/ \E c \in ChainIds : Retry(c)
  \/ \E t \in TaskIds : EachMessageOk(t)
  \/ \E t \in TaskIds : HeartbeatOk(t)
  \/ \E t \in TaskIds : CommitOffsetsIfNecessaryOk(t)
  \/ \E t \in TaskIds : EachBatchResolve(t)
  \/ \E t \in TaskIds : EachBatchOk(t)

\* Every call the Runner awaits settles, every handler returns, and every
\* timer (waitForConsumer, setImmediate, backoff) fires.
Settles ==
  /\ WF_vars(WaitForConsumer)
  /\ WF_vars(LeaveDone)
  /\ WF_vars(\E o \in JoinOwners : JoinOk(o))
  /\ WF_vars(\E o \in JoinOwners : SyncOk(o))
  /\ WF_vars(\E c \in ChainIds : FetchOk(c) \/ \E e \in ErrKinds : FetchFail(c, e))
  /\ WF_vars(\E c \in ChainIds : AutoCommitOk(c))
  /\ WF_vars(\E c \in ChainIds : TrailingHeartbeatOk(c))
  /\ WF_vars(\E c \in ChainIds : Immediate(c))
  /\ WF_vars(\E c \in ChainIds : Retry(c))
  /\ WF_vars(\E t \in TaskIds : EachMessageOk(t))
  /\ WF_vars(\E t \in TaskIds : HeartbeatOk(t))
  /\ WF_vars(\E t \in TaskIds : CommitOffsetsIfNecessaryOk(t))
  /\ WF_vars(\E t \in TaskIds : EachBatchOk(t))

SpecLive == Init /\ [][NextLive]_vars /\ Settles

\* ============================================================== claims
\* What a step says about single tasks.  When Promise.all rejects, the tasks
\* of the abandoned cycle that go on are renamed: Was(t) is the record, before
\* the step, of the task known as t after it, and Now(t) the record, after the
\* step, of the task known as t before it.
Was(t) ==
  IF t[1] \in OrphanIds /\ tasks[t].st = "none" /\ tasks'[t].st # "none"
    THEN tasks[<< CHOOSE c \in ChainIds :
                    tasks[<<c, t[2]>>].st # "none" /\ tasks'[<<c, t[2]>>].st = "none",
                  t[2] >>]
    ELSE tasks[t]

Now(t) ==
  IF /\ t[1] \in ChainIds /\ tasks[t].st # "none" /\ tasks'[t].st = "none"
     /\ \E o \in OrphanIds :
          tasks[<<o, t[2]>>].st = "none" /\ tasks'[<<o, t[2]>>].st # "none"
    THEN tasks'[<< CHOOSE o \in OrphanIds :
                     tasks[<<o, t[2]>>].st = "none" /\ tasks'[<<o, t[2]>>].st # "none",
                   t[2] >>]
    ELSE tasks'[t]

\* The user handler invocations in progress for partition p.
Handlers(p) ==
  {cy \in CycleIds : tasks[<<cy, p>>].st \in {"eachMessage", "eachBatch"}}

\* The batch tasks that have started and not settled.
InProgress == {t \in TaskIds : tasks[t].st \notin {"none", "queued"}}

\* A consumerGroup.fetch() call is pending.
FetchPending == \E c \in ChainIds : chains[c].pc = "fetch"

\* The trailing auto-commit or heartbeat of a cycle is pending.
TrailingPending == \E c \in ChainIds : chains[c].pc \in {"autoCommit", "heartbeat"}

\* The step calls consumerGroup.leave().
LeaveCalled == stopPc # "leave" /\ stopPc' = "leave"

\* The step calls consumerGroup.fetch(): a fetch cycle begins.
CycleBegins == \E c \in ChainIds : chains[c].pc # "fetch" /\ chains'[c].pc = "fetch"

\* The step invokes onCrash.
Crashed == crashes' # crashes

\* C1: no two user handler invocations for the same partition are in
\* progress at the same time.
C1_OneHandlerPerPartition ==
  \A p \in Partitions : Cardinality(Handlers(p)) <= 1

\* C2: in non-test mode, when stop() calls group.leave no fetch call is
\* pending, no handler invocation is in progress and no trailing auto-commit
\* or heartbeat is pending.
C2_LeaveQuiesced ==
  [][(LeaveCalled /\ ~isTestMode) =>
       /\ ~FetchPending'
       /\ ~TrailingPending'
       /\ \A p \in Partitions : Handlers(p)' = {}]_vars

\* C3: a fetch cycle begins only when every batch task of the cycles before
\* it has settled and no trailing auto-commit or heartbeat is pending.
C3_CyclesDoNotOverlap ==
  [][CycleBegins => (\A t \in TaskIds : tasks'[t].st = "none") /\ ~TrailingPending']_vars

\* C4: over the whole Runner, at most partitionsConsumedConcurrently batch
\* tasks are in progress.
C4_InProgressWithinLimit ==
  Cardinality(InProgress) <= partitionsConsumedConcurrently

\* C5: running becomes true only when the join of start() completes, and
\* false only in stop().
C5_RunningOnlyStartAndStop ==
  [][/\ (~running /\ running') => (joins[0].pc = "sync" /\ joins'[0].pc = "none")
     /\ (running /\ ~running') => (stopPc = "idle" /\ stops' = stops + 1)]_vars

\* C6: in non-test mode group.leave is never called while consuming is true:
\* a stop() that found consuming true calls it only once consuming is false.
C6_LeaveAfterConsuming ==
  [][(LeaveCalled /\ ~isTestMode) => ~consuming]_vars

\* C6 witness: a stop() that found consuming true has waited and called leave.
C6_Witness == stopPc = "leave" /\ waited /\ ~isTestMode

\* C7 as stated: onCrash is invoked at most once over the life of a Runner.
C7_CrashAtMostOnce == crashes <= 1

\* C7 amended: each invocation of onCrash is the one invocation made for a
\* start() whose join failed or for a scheduleFetch chain that then ends.
C7_CrashOncePerFailure ==
  [][Crashed =>
       /\ crashes' = crashes + 1
       /\ \/ joins[0].pc # "none" /\ joins'[0].pc = "none" /\ running' = running
          \/ \E c \in ChainIds : chains[c].pc # "none" /\ chains'[c].pc = "none"]_vars

\* C7 witness: onCrash has been invoked a second time.
C7_Witness == crashes = 2

\* C8: whenever onCrash is invoked the Runner is left with running = false.
C8_CrashLeavesNotRunning ==
  [][Crashed => ~running']_vars

\* C9: in message mode, when the handler threw on offset k and the task
\* throws the error again after its commitOffsets call, the committed offset
\* of the partition is at most k.
C9_CommittedNotPastFailing ==
  [][\A t \in TaskIds :
       (eachMessage /\ tasks[t].st = "commitOffsets" /\ Now(t).st # "commitOffsets")
         => committed'[t[2]] <= tasks[t].next]_vars

\* C10 as stated: per partition, the offsets given to eachMessage over a run
\* are strictly increasing.
C10_StrictlyIncreasing ==
  [][\A p \in Partitions : \A o \in Called(p) : o > delivered[p]]_vars

\* C10 amended: within one batch task eachMessage is called on the batch's
\* messages in offset order, from the first on, with no duplicate and no gap.
C10_InOrderWithinBatch ==
  [][\A t \in TaskIds :
       (tasks'[t].st = "eachMessage" /\ Was(t) # tasks'[t]) =>
         /\ tasks'[t].first <= tasks'[t].next /\ tasks'[t].next <= tasks'[t].last
         /\ IF Was(t).st \in {"none", "queued"}
              THEN tasks'[t].next = tasks'[t].first
              ELSE /\ Was(t).st = "commitOffsetsIfNecessary"
                   /\ tasks'[t].next = Was(t).next + 1
                   /\ tasks'[t].first = Was(t).first
                   /\ tasks'[t].last = Was(t).last]_vars

\* C10 witness: eachMessage is running on the second message of a batch.
C10_Witness ==
  \E t \in TaskIds :
    tasks[t].st = "eachMessage" /\ tasks[t].next = tasks[t].first + 1

\* The trailing heartbeat of the cycle of chain c resolves: the cycle is
\* complete.
CycleCompletes(c) == chains[c].pc = "heartbeat" /\ chains'[c].pc = "immediate"

RebalanceSignals ==
  { "REBALANCE_IN_PROGRESS", "NOT_COORDINATOR_FOR_GROUP", "UNKNOWN_MEMBER_ID" }

\* The step in which the fetch cycle of chain c fails with e: fetch() throws
\* e into the catch block of scheduleFetch.
CycleFails(c, e) ==
  \/ FetchFail(c, e)
  \/ TrailingFail(c, e)
  \/ \E p \in Partitions :
       \/ TaskCallFail(<<c, p>>, e)
       \/ CommitOffsetsOk(<<c, p>>, e)
       \/ EachBatchThrow(<<c, p>>, e) /\ ~autoCommit

\* The re-join of chain c ends: `await this.join()` settles.
RejoinEnds(c) == chains[c].pc = "join" /\ chains'[c].pc # "join"

\* C12 as stated: a recovery from a rebalance signal ends only with the join
\* having succeeded and the next fetch cycle started; it never ends in a new
\* fetch attempt without a join or in onCrash.
C12_RejoinBeforeFetch ==
  [][\A c \in ChainIds :
       RejoinEnds(c) =>
         joins[c].pc = "sync" /\ chains'[c].pc = "fetch" /\ ~Crashed]_vars

\* C12 amended: a cycle failing with a rebalance signal while running starts
\* a re-join (memberId null first for UNKNOWN_MEMBER_ID), with no onCrash and
\* no fetch; a re-join that succeeds is followed at once by the next fetch;
\* the error of a re-join that fails goes to the retrier, which tries the
\* fetch again after a backoff or, with no retry left, rejects into onCrash.
C12_RebalanceRecovery ==
  [][\A c \in ChainIds :
       /\ \A e \in RebalanceSignals :
            (running /\ CycleFails(c, e)) =>
              /\ chains'[c].pc = "join" /\ joins'[c].pc = "join"
              /\ ~Crashed
              /\ e = "UNKNOWN_MEMBER_ID" => memberId' = "null"
       /\ RejoinEnds(c) =>
            IF joins[c].pc = "sync" /\ errs' = errs
              THEN chains'[c].pc = "fetch" /\ running' /\ ~Crashed
              ELSE /\ errs' = errs + 1
                   /\ \/ chains'[c].pc = "backoff" /\ ~Crashed
                      \/ chains'[c].pc = "none" /\ crashes' = crashes + 1]_vars

\* C12 witness: the catch block has cleared the member id and the re-join
\* it started is in progress.
C12_Witness ==
  \E c \in ChainIds :
    chains[c].pc = "join" /\ joins[c].pc = "join" /\ memberId = "null"

\* The join of start() rejects: the catch block of start() calls onCrash.
StartFails == joins[0].pc # "none" /\ joins'[0].pc = "none" /\ Crashed

\* C13: when the join of start() fails, onCrash is called with the error,
\* running is false afterwards, and no fetch loop is launched: no chain
\* starts and no group.fetch call is made.
C13_StartFailureLeavesStopped ==
  [][StartFails =>
       /\ crashes' = crashes + 1 /\ lastCrash' \in ErrKinds
       /\ \A e \in ErrKinds \ {"REBALANCE_IN_PROGRESS", "NOT_COORDINATOR_FOR_GROUP"} :
            JoinFail(0, e) => lastCrash' = e
       /\ ~running'
       /\ chains' = chains /\ ~CycleBegins]_vars

\* C14: with autoCommit off the Runner has no group.commitOffsets and no
\* group.commitOffsetsIfNecessary call of its own in progress, in a batch
\* task or after a cycle.
C14_NoCommitWhenAutoCommitOff ==
  ~autoCommit =>
    /\ \A t \in TaskIds :
         tasks[t].st \notin {"commitOffsets", "commitOffsetsIfNecessary"}
    /\ \A c \in ChainIds : chains[c].pc # "autoCommit"

\* The step in which the Runner itself calls resolveOffset for the batch of
\* task t: after a message handler returned, or for batch.lastOffset.
RunnerResolves(t) ==
  \/ EachMessageOk(t)
  \/ EachBatchOk(t) /\ eachBatchAutoResolve

\* C15: the Runner makes no resolveOffset call of its own for a batch whose
\* partition has a seek pending.
C15_StaleBatchNotResolved ==
  [][\A t \in TaskIds :
       RunnerResolves(t) => ~hasSeekOffset(seekOffset, t[2])]_vars

\* The eachBatch handler of task t returns, or throws, in this step.
BatchReturns(t) ==
  ~eachMessage /\ tasks[t].st = "eachBatch" /\ Now(t).st = "none" /\ errs' = errs

BatchThrows(t) ==
  /\ ~eachMessage /\ tasks[t].st = "eachBatch" /\ Now(t).st # "eachBatch"
  /\ errs' = errs + 1

\* The eachBatch handler of task t calls resolveOffset in this step.
HandlerResolves(t) ==
  /\ tasks[t].st = "eachBatch" /\ Now(t).st = "eachBatch"
  /\ Now(t).next = tasks[t].next + 1

\* C16: in batch mode the Runner resolves batch.lastOffset exactly when the
\* handler returned without error and eachBatchAutoResolve is true; otherwise
\* the resolved offsets change only by the handler's own resolveOffset calls.
C16_AutoResolveOnlyOnSuccess ==
  [][/\ \A t \in TaskIds :
          /\ BatchReturns(t) =>
               resolved' = IF eachBatchAutoResolve
                             THEN [resolved EXCEPT ![t[2]] = tasks[t].last + 1]
                             ELSE resolved
          /\ BatchThrows(t) => resolved' = resolved
     /\ (~eachMessage /\ resolved' # resolved) =>
          \E t \in TaskIds :
            \/ BatchReturns(t) /\ eachBatchAutoResolve
            \/ HandlerResolves(t)]_vars

\* C16 witness: with eachBatchAutoResolve off, a handler has returned after
\* stop() without resolving the last offset of its batch, which stays
\* unresolved.
C16_Witness ==
  /\ ~eachMessage /\ ~eachBatchAutoResolve /\ ~running
  /\ \E p \in Partitions : handled[p] >= 0 /\ resolved[p] <= handled[p]

\* The step in which an error reaches the fetch loop of chain c: a call the
\* loop awaits (in fetch(), in a batch task, or its re-join) rejects.
LoopError(c) ==
  /\ errs' = errs + 1
  /\ joins'[0] = joins[0]
  /\ chains[c].pc # "none"
  /\ chains'[c] # chains[c] \/ joins'[c] # joins[c]

\* C17: once stop() has set running = false, an error that reaches the fetch
\* loop is not passed to onCrash and starts no re-join or retry: the loop
\* ends.
C17_CleanExitAfterStop ==
  [][\A c \in ChainIds :
       (~running /\ LoopError(c)) =>
         ~Crashed /\ chains'[c].pc = "none" /\ joins'[c].pc = "none"]_vars

\* The fetch loop has ended: no scheduleFetch chain and no re-join is left.
LoopEnded ==
  /\ \A c \in ChainIds : chains[c].pc = "none"
  /\ \A o \in JoinOwners : joins[o].pc = "none"

\* stop() has been called on a running Runner, not in test mode.
Stopped == stops > 0 /\ ~isTestMode

\* C18: after a stop() of a running Runner (non-test mode), with every call
\* and handler returning and no further start(), group.leave is eventually
\* called (stop() gets past its wait and leave settles) and the fetch loop
\* eventually ends for good.
C18_ShutdownCompletes ==
  /\ Stopped ~> (stopPc = "idle")
  /\ Stopped ~> [](LoopEnded)

\* stop() has called consumerGroup.leave() and start() was called once only,
\* before it: a stop() that found running true has got past waitForConsumer.
Left ==
  /\ starts = 1
  /\ stops > 0
  /\ (stopPc \in {"leave", "idle"} \/ stops > 1)

\* The states of a batch task in which it awaits a user handler or a call of
\* the group.
TaskCalls ==
  { "eachMessage", "eachBatch", "heartbeat", "commitOffsetsIfNecessary",
    "commitOffsets" }

\* The step calls consumerGroup.fetch, commitOffsets, commitOffsetsIfNecessary,
\* heartbeat or join, or invokes a user handler.
CallIssued ==
  \/ CycleBegins
  \/ \E c \in ChainIds :
       chains'[c].pc \in {"autoCommit", "heartbeat"} /\ chains'[c].pc # chains[c].pc
  \/ \E o \in JoinOwners : joins'[o].pc = "join" /\ joins[o].pc # "join"
  \/ \E t \in TaskIds : tasks'[t].st \in TaskCalls /\ Was(t).st # tasks'[t].st

\* C19: outside test mode, once stop() has called group.leave, and with no
\* start() after it (nor in the step), the
\* Runner calls neither group.fetch, group.commitOffsets,
\* group.commitOffsetsIfNecessary, group.heartbeat nor group.join and invokes
\* no user handler, a retry that was waiting in backoff included.
C19_QuietAfterLeave ==
  [][(Left /\ starts' = starts /\ ~isTestMode) => ~CallIssued]_vars

\* C20, message mode: what a step does to the task t.  A handler that
\* returns is followed by resolveOffset of its message and the heartbeat
\* call; the heartbeat call that resolves by commitOffsetsIfNecessary; and
\* the handler is called for the first message of a batch or, after
\* commitOffsetsIfNecessary, for the message after the one handled.
InMessageOrder(t) ==
  /\ (tasks[t].st = "eachMessage" /\ Now(t).st # "eachMessage") =>
       \/ /\ Now(t).st = "heartbeat"
          /\ Now(t).next = tasks[t].next
          /\ resolved' = [resolved EXCEPT ![t[2]] = tasks[t].next + 1]
       \/ Now(t).st = "commitOffsets" /\ errs' = errs + 1
  /\ (tasks[t].st = "heartbeat" /\ Now(t).st # "heartbeat") =>
       \/ /\ Now(t).st = "commitOffsetsIfNecessary"
          /\ Now(t).next = tasks[t].next
          /\ resolved' = resolved
       \/ Now(t).st = "none" /\ errs' = errs + 1
  /\ (tasks'[t].st = "eachMessage" /\ Was(t).st # "eachMessage") =>
       \/ Was(t).st \in {"none", "queued"} /\ tasks'[t].next = tasks'[t].first
       \/ /\ Was(t).st = "commitOffsetsIfNecessary"
          /\ tasks'[t].next = Was(t).next + 1

\* C20, the end of the cycle of chain c: the auto-commit is called when all
\* the batch tasks of the cycle have settled (a commitOffsets call if
\* autoCommit is on, nothing if it is off), the trailing heartbeat after it,
\* and the cycle completes when that one heartbeat call resolves.
CycleEndsInOrder(c) ==
  /\ chains[c].pc \in {"autoCommit", "heartbeat"} => CycleTasks(tasks, c) = {}
  /\ (chains'[c].pc = "autoCommit" /\ chains[c].pc # "autoCommit") =>
       autoCommit /\ chains[c].pc \in {"fetch", "tasks"}
  /\ (chains'[c].pc = "heartbeat" /\ chains[c].pc # "heartbeat") =>
       IF autoCommit
         THEN chains[c].pc = "autoCommit" /\ committed' = resolved
         ELSE chains[c].pc \in {"fetch", "tasks"}
  /\ (chains[c].pc = "heartbeat" /\ chains'[c].pc # "heartbeat" /\ errs' = errs) =>
       chains'[c].pc = "immediate"
  /\ (chains'[c].pc = "immediate" /\ chains[c].pc # "immediate") =>
       chains[c].pc = "heartbeat" /\ errs' = errs

\* C20: in message mode a handler invocation that succeeds is followed by
\* resolveOffset(message.offset), then group.heartbeat, then
\* group.commitOffsetsIfNecessary, all before the handler is invoked for the
\* next message of the batch; and a fetch cycle that completes without error
\* ends with the auto-commit and then one trailing group.heartbeat call, both
\* issued after all the batch tasks of the cycle have finished.
C20_OrderOfCalls ==
  [][/\ eachMessage => \A t \in TaskIds : InMessageOrder(t)
     /\ \A c \in ChainIds : CycleEndsInOrder(c)]_vars

\* A cycle of message mode that went through a batch of two messages has
\* issued its auto-commit, no call having failed and nothing stopped.
C20_Witness ==
  /\ eachMessage /\ autoCommit /\ errs = 0 /\ stops = 0 /\ starts = 1
  /\ \E c \in ChainIds : chains[c].pc = "autoCommit"
  /\ handled[0] = 1 /\ resolved[0] = 2 /\ committed[0] = 0

====
